---------------------------- MODULE Spec2Model ----------------------------
(***************************************************************************)
(* Model of src/main.py (Bill2Moneywiz): the encoding fallback chain       *)
(* read_file_with_encoding, and the two row pipelines process_alipay_csv   *)
(* and process_weixin_csv.                                                 *)
(*                                                                         *)
(* A text is a sequence of characters, a character is a one-token string.  *)
(* The Chinese characters of the source are written as pinyin tokens:      *)
(*   bu ji shou zhi      = the "not counted" category   (src line 98)      *)
(*   jiao yi4 guan bi    = the "transaction closed" status (line 106)      *)
(*   zhi chu             = the "expense" indicator      (lines 114, 234)   *)
(*   jiao yi4 zhuang tai = header text of the status column (line 73)      *)
(*   jiao yi4 shi jian   = header text of the time column   (line 189)     *)
(*   shou / zhi          = header text of the type column   (line 192)     *)
(*   jin e               = header text of the amount column (line 195)     *)
(*   dang qian zhuang tai= header text of the status column (line 198)     *)
(*   yi3 quan e tui kuan, ti xian yi3 dao zhang, dui fang yi3 tui huan     *)
(*                       = the three excluded statuses      (line 221)     *)
(*   yen                 = the currency sign removed at line 231           *)
(* DQ, CR and LF are the double quote, carriage return and line feed.      *)
(***************************************************************************)
EXTENDS Integers, Sequences, FiniteSets, TLC

VARIABLES
    pipeline,      \* "alipay" | "weixin" | "none" (which function runs)
    pc,            \* position in the running function
    nlines,        \* len(lines): number of input lines
    header,        \* the parsed header row (next(reader))
    idx,           \* the resolved column indices (0-based, as in the source)
    rows,          \* the rows the reader has yielded so far, as yielded
    rowObjs,       \* the same row list objects, as they are now
    records,       \* records
    srcOf,         \* for each record, the position in rows of its source row
    stats,         \* the counters of the row loop
    result,        \* the value returned to the caller, or Null
    propagated,    \* the exception that left the function, or "none"
    caught,        \* the exception caught at the function's boundary, or "none"
    env,           \* what the run met: decoding and the output target
    out,           \* the text written to output_file
    dIn,           \* decoder input: what detection does and what decodes
    dOut,          \* decoder outcome
    hIn,           \* header resolution: the header under resolution
    hOut,          \* header resolution: the indices resolved
    cIn,           \* written table (header followed by records)
    cText,         \* the text csv.writer produced for it
    cBack          \* what csv.reader parses from that text

vars == <<pipeline, pc, nlines, header, idx, rows, rowObjs, records, srcOf,
          stats, result, propagated, caught, env, out, dIn, dOut, hIn, hOut,
          cIn, cText, cBack>>

decVars == <<dIn, dOut>>
hdrVars == <<hIn, hOut>>
csvVars == <<cIn, cText, cBack>>

\* The null result of a pipeline (return None)
NullResult == [isNone |-> TRUE]

-----------------------------------------------------------------------------
(* Texts of the source *)

BuJiShouZhi == <<"bu", "ji", "shou", "zhi">>
JiaoYiGuanBi == <<"jiao", "yi4", "guan", "bi">>
ZhiChu == <<"zhi", "chu">>
ShouRu == <<"shou", "ru">>
JiaoYiZhuangTai == <<"jiao", "yi4", "zhuang", "tai">>
JiaoYiShiJian == <<"jiao", "yi4", "shi", "jian">>
ShouZhi == <<"shou", "/", "zhi">>
JinE == <<"jin", "e">>
DangQianZhuangTai == <<"dang", "qian", "zhuang", "tai">>
YiQuanETuiKuan == <<"yi3", "quan", "e", "tui", "kuan">>
TiXianYiDaoZhang == <<"ti", "xian", "yi3", "dao", "zhang">>
DuiFangYiTuiHuan == <<"dui", "fang", "yi3", "tui", "huan">>
\* The status list with its last entry forgotten
ExcludedStatusesShort == {YiQuanETuiKuan, TiXianYiDaoZhang}
ExcludedStatuses == {YiQuanETuiKuan, TiXianYiDaoZhang, DuiFangYiTuiHuan}

-----------------------------------------------------------------------------
(* Text operations *)

Max(S) == CHOOSE m \in S : \A x \in S : x <= m

\* Python's  sub in s
Contains(sub, s) ==
    \E i \in 0..(Len(s) - Len(sub)) : SubSeq(s, i + 1, i + Len(sub)) = sub

\* Python's  s.replace(c, "")  for a one-character c
RECURSIVE Remove(_, _)
Remove(s, c) ==
    IF s = << >> THEN << >>
    ELSE IF Head(s) = c THEN Remove(Tail(s), c)
    ELSE <<Head(s)>> \o Remove(Tail(s), c)

Digits == <<"0", "1", "2", "3", "4", "5", "6", "7", "8", "9">>
IsDigit(c) == \E i \in 1..10 : Digits[i] = c
DigitVal(c) == (CHOOSE i \in 1..10 : Digits[i] = c) - 1
AllDigits(s) == \A i \in 1..Len(s) : IsDigit(s[i])

\* re.match(r'(\d{4}-\d{2}-\d{2})', s): anchored at the start, nothing
\* required of what follows the tenth character
DateMatches(s) ==
    /\ Len(s) >= 10
    /\ \A i \in {1, 2, 3, 4, 6, 7, 9, 10} : IsDigit(s[i])
    /\ s[5] = "-"
    /\ s[8] = "-"

\* The whole cell kept instead of the matched group
DateGroupWhole(s) == s

\* date_match.group(1)
DateGroup(s) == SubSeq(s, 1, 10)

RECURSIVE NatOf(_)
NatOf(ds) ==
    IF ds = << >> THEN 0
    ELSE NatOf(SubSeq(ds, 1, Len(ds) - 1)) * 10 + DigitVal(ds[Len(ds)])

RECURSIVE NatText(_)
NatText(n) ==
    IF n < 10 THEN <<Digits[n + 1]>>
    ELSE NatText(n \div 10) \o <<Digits[(n % 10) + 1]>>

RECURSIVE DropTrailingZeros(_)
DropTrailingZeros(ds) ==
    IF ds # << >> /\ ds[Len(ds)] = "0"
    THEN DropTrailingZeros(SubSeq(ds, 1, Len(ds) - 1))
    ELSE ds

RECURSIVE StripSpaces(_)
StripSpaces(s) ==
    IF s # << >> /\ Head(s) = " " THEN StripSpaces(Tail(s))
    ELSE IF s # << >> /\ s[Len(s)] = " "
    THEN StripSpaces(SubSeq(s, 1, Len(s) - 1))
    ELSE s

\* float(s) raising ValueError
ValueError == [ok |-> FALSE]

\* The place of the first "." of s, or 0
DotAt(s) ==
    IF \E i \in 1..Len(s) : s[i] = "."
    THEN CHOOSE i \in 1..Len(s) : s[i] = "." /\ \A j \in 1..(i - 1) : s[j] # "."
    ELSE 0

\* float(s) for plain decimal notation: surrounding blanks, an optional sign,
\* digits with at most one point and at least one digit.  A float is kept as
\* sign, integer part and fraction digits (trailing zeros dropped), which is
\* exact for the amounts of a bill.  Anything else is a ValueError.
ParseUnsigned(u) ==
    LET d == DotAt(u)
        ip == IF d = 0 THEN u ELSE SubSeq(u, 1, d - 1)
        fp == IF d = 0 THEN << >> ELSE SubSeq(u, d + 1, Len(u))
    IN  IF AllDigits(ip) /\ AllDigits(fp) /\ Len(ip) + Len(fp) > 0
        THEN [ok |-> TRUE, neg |-> FALSE, ip |-> NatOf(ip),
              fr |-> DropTrailingZeros(fp)]
        ELSE ValueError

\* -amount_value
Negate(v) == [v EXCEPT !.neg = ~v.neg]

Float(s) ==
    LET t == StripSpaces(s)
    IN  IF t = << >> THEN ValueError
        ELSE IF Head(t) = "-"
        THEN LET v == ParseUnsigned(Tail(t))
             IN  IF v.ok THEN Negate(v) ELSE ValueError
        ELSE IF Head(t) = "+" THEN ParseUnsigned(Tail(t))
        ELSE ParseUnsigned(t)

\* str(x) of a float x: always a point and at least one fraction digit
Str(v) ==
    (IF v.neg THEN <<"-">> ELSE << >>) \o NatText(v.ip) \o <<".">>
        \o (IF v.fr = << >> THEN <<"0">> ELSE v.fr)

-----------------------------------------------------------------------------
(* read_file_with_encoding *)

\* encodings = ['gbk', 'gb18030', 'cp936', 'utf-8-sig', 'utf-8']
Fallbacks == <<"gbk", "gb18030", "cp936", "utf-8-sig", "utf-8">>

\* What chardet's guess names: a codec Python knows, no guess at all (None:
\* open() then uses the locale's codec), a name Python has no codec for
\* (LookupError), or detect_encoding raising before `encoding` is bound.
KnownGuesses == {"GB2312", "ascii", "utf-8", "UTF-8-SIG"}
DetectOutcomes == KnownGuesses \cup {"None", "unknown", "raise"}

\* The codec a name stands for
Codec(name) ==
    CASE name = "None" -> "locale"
      [] name = "UTF-8-SIG" -> "utf-8-sig"
      [] OTHER -> name

Codecs == {"ascii", "GB2312", "gbk", "cp936", "gb18030", "utf-8-sig", "utf-8",
           "locale"}

\* Sets of codecs that can be the ones decoding one input: cp936 is gbk,
\* utf-8-sig decodes what utf-8 decodes, GB2312 is within gbk within gb18030,
\* ascii is within all of them but the locale's codec, which may be anything.
Decodable(D) ==
    /\ ("gbk" \in D) = ("cp936" \in D)
    /\ ("utf-8" \in D) = ("utf-8-sig" \in D)
    /\ "GB2312" \in D => "gbk" \in D
    /\ "gbk" \in D => "gb18030" \in D
    /\ "ascii" \in D => {"GB2312", "utf-8"} \subseteq D

DecoderInputs ==
    {[detect |-> d, decodes |-> D] :
        d \in DetectOutcomes, D \in {X \in SUBSET Codecs : Decodable(X)}}

\* Lines 22-26: the attempt with the detected encoding
FirstAttempt(in) ==
    IF in.detect = "raise"
    THEN [kind |-> "raise", exc |-> "OSError", bound |-> FALSE]
    ELSE IF in.detect = "unknown"
    THEN [kind |-> "raise", exc |-> "LookupError", bound |-> TRUE]
    ELSE IF Codec(in.detect) \in in.decodes
    THEN [kind |-> "lines", enc |-> Codec(in.detect)]
    ELSE [kind |-> "raise", exc |-> "UnicodeDecodeError", bound |-> TRUE]

\* Line 27: except Exception
FirstHandlerCatches(exc) == TRUE

\* Lines 31-39: the first fallback codec that decodes; only UnicodeDecodeError
\* is caught, and it is the only exception a known codec raises on the bytes
RECURSIVE FallbackFrom(_, _)
FallbackFrom(i, in) ==
    IF i > Len(Fallbacks)
    THEN [kind |-> "raise", exc |-> "Exception: convert manually"]
    ELSE IF Fallbacks[i] \in in.decodes
    THEN [kind |-> "lines", enc |-> Fallbacks[i]]
    ELSE FallbackFrom(i + 1, in)

\* Line 28: the handler's print formats `encoding`, which is unbound when
\* detect_encoding itself raised
HandlerPrint(first) ==
    IF first.bound THEN "ok" ELSE "UnboundLocalError"

ReadFileWithEncoding(in) ==
    LET first == FirstAttempt(in)
    IN  IF first.kind = "lines" THEN first
        ELSE IF ~FirstHandlerCatches(first.exc)
        THEN [kind |-> "raise", exc |-> first.exc]
        ELSE IF HandlerPrint(first) # "ok"
        THEN [kind |-> "raise", exc |-> HandlerPrint(first)]
        ELSE FallbackFrom(1, in)

-----------------------------------------------------------------------------
(* Column resolution *)

\* Lines 69-76: the first header cell containing the status text, else 3
RECURSIVE AlipayStatusFrom(_, _)
AlipayStatusFrom(i, h) ==
    IF i > Len(h) THEN 3
    ELSE IF Contains(JiaoYiZhuangTai, h[i]) THEN i - 1
    ELSE AlipayStatusFrom(i + 1, h)

\* Alipay reads the date at 0, the indicator at 5 and the amount at 6
ResolveAlipay(h) ==
    [time |-> 0, type |-> 5, amount |-> 6, status |-> AlipayStatusFrom(1, h)]

\* Four independent tests per cell instead of one if/elif chain
WeixinCellIndependent(ix, col, i) ==
    [time |-> IF Contains(JiaoYiShiJian, col) THEN i ELSE ix.time,
     type |-> IF Contains(ShouZhi, col) THEN i ELSE ix.type,
     amount |-> IF Contains(JinE, col) THEN i ELSE ix.amount,
     status |-> IF Contains(DangQianZhuangTai, col) THEN i ELSE ix.status]

\* Lines 188-200: one pass over the header, one if/elif chain per cell
WeixinCell(ix, col, i) ==
    IF Contains(JiaoYiShiJian, col) THEN [ix EXCEPT !.time = i]
    ELSE IF Contains(ShouZhi, col) THEN [ix EXCEPT !.type = i]
    ELSE IF Contains(JinE, col) THEN [ix EXCEPT !.amount = i]
    ELSE IF Contains(DangQianZhuangTai, col) THEN [ix EXCEPT !.status = i]
    ELSE ix

RECURSIVE WeixinScan(_, _, _)
WeixinScan(ix, i, h) ==
    IF i > Len(h) THEN ix
    ELSE WeixinScan(WeixinCell(ix, h[i], i - 1), i + 1, h)

\* Lines 182-185: the defaults
WeixinDefaults == [time |-> 0, type |-> 5, amount |-> 5, status |-> 7]

ResolveWeixin(h) == WeixinScan(WeixinDefaults, 1, h)

-----------------------------------------------------------------------------
(* The row loops *)

\* A row's outcome: it is skipped silently, dropped and counted, emitted as
\* rec, or a cell access is out of range
Outcome(k, r) == [kind |-> k, rec |-> r]

\* The length test off by one
AlipayTooShortByOne(row, ix) ==
    row = << >> \/ Len(row) < Max({ix.status, 5, 6})

\* Line 84: not row or len(row) <= max(transaction_status_index, 5, 6)
AlipayTooShort(row, ix) ==
    row = << >> \/ Len(row) <= Max({ix.status, 5, 6})

\* Lines 119-122: new_row = list(row); new_row[0] = ...; new_row[6] = ...
\* (the second assignment is the one that stays when both name one cell)
Rewrite(row, ti, date, ai, amountText) ==
    IF ti >= Len(row) \/ ai >= Len(row) THEN Outcome("IndexError", << >>)
    ELSE Outcome("emit",
                 [[row EXCEPT ![ti + 1] = date] EXCEPT ![ai + 1] = amountText])

\* The sign turned for every indicator but the expense one
SignedWrongWay(amountText, income_expense) ==
    LET v == Float(amountText)
    IN  IF v.ok /\ income_expense # ZhiChu THEN Negate(v) ELSE v

\* Lines 113-115 and 233-235: float(), negated for the expense indicator
Signed(amountText, income_expense) ==
    LET v == Float(amountText)
    IN  IF v.ok /\ income_expense = ZhiChu THEN Negate(v) ELSE v

\* Lines 83-125: the body of the loop for one row
AlipayRow(row, ix) ==
    IF AlipayTooShort(row, ix) THEN Outcome("skip", << >>)
    ELSE IF Len(row) = 0 THEN Outcome("IndexError", << >>)
    ELSE IF ~DateMatches(row[1]) THEN Outcome("skip", << >>)
    ELSE
    LET date == DateGroup(row[1])
        income_expense == IF Len(row) > 5 THEN row[6] ELSE << >>
        transaction_status ==
            IF Len(row) > ix.status THEN row[ix.status + 1] ELSE << >>
        amount == IF Len(row) > 6 THEN row[7] ELSE <<"0">>
        amount_value == Signed(amount, income_expense)
    IN  IF income_expense = BuJiShouZhi THEN Outcome("non_expense", << >>)
        ELSE IF transaction_status = JiaoYiGuanBi
        THEN Outcome("closed", << >>)
        ELSE IF ~amount_value.ok THEN Outcome("skip", << >>)
        ELSE Rewrite(row, 0, date, 6, Str(amount_value))

\* Line 207: not row or len(row) <= max(time, type, amount, status index)
WeixinTooShort(row, ix) ==
    row = << >> \/ Len(row) <= Max({ix.time, ix.type, ix.amount, ix.status})

\* Line 231: the currency sign and the commas are removed
StripAmount(amount_str) == Remove(Remove(amount_str, "yen"), ",")

\* Lines 206-245: the body of the loop for one row
WeixinRow(row, ix) ==
    IF WeixinTooShort(row, ix) THEN Outcome("skip", << >>)
    ELSE IF ix.time >= Len(row) THEN Outcome("IndexError", << >>)
    ELSE IF ~DateMatches(row[ix.time + 1]) THEN Outcome("skip", << >>)
    ELSE
    LET date == DateGroup(row[ix.time + 1])
        status == IF Len(row) > ix.status THEN row[ix.status + 1] ELSE << >>
        income_expense ==
            IF Len(row) > ix.type THEN row[ix.type + 1] ELSE << >>
        amount_str ==
            StripAmount(IF Len(row) > ix.amount THEN row[ix.amount + 1]
                        ELSE <<"0">>)
        amount_value == Signed(amount_str, income_expense)
    IN  IF status \in ExcludedStatuses THEN Outcome("excluded", << >>)
        ELSE IF ~amount_value.ok THEN Outcome("skip", << >>)
        ELSE Rewrite(row, ix.time, date, ix.amount, Str(amount_value))

\* new_row = row: the record and the reader's row are one list
SourceAliased(row, new_row) == new_row

\* new_row = list(row) makes a new list: the assignments to new_row leave the
\* list the reader yielded as it was
SourceAfter(row, new_row) == row

\* Lines 78-80 and 202-203
ZeroStats ==
    [filtered_count |-> 0, non_expense_count |-> 0, closed_count |-> 0,
     excluded_status_count |-> 0]

\* A dropped row counted as kept as well
CountTwice(st, kind) ==
    CASE kind = "emit" -> [st EXCEPT !.filtered_count = @ + 1]
      [] kind = "non_expense" ->
            [st EXCEPT !.non_expense_count = @ + 1, !.filtered_count = @ + 1]
      [] kind = "closed" -> [st EXCEPT !.closed_count = @ + 1]
      [] kind = "excluded" ->
            [st EXCEPT !.excluded_status_count = @ + 1,
                       !.filtered_count = @ + 1]
      [] OTHER -> st

\* Lines 99, 107, 125, 222, 245: the counter a row's outcome increments
Count(st, kind) ==
    CASE kind = "emit" -> [st EXCEPT !.filtered_count = @ + 1]
      [] kind = "non_expense" -> [st EXCEPT !.non_expense_count = @ + 1]
      [] kind = "closed" -> [st EXCEPT !.closed_count = @ + 1]
      [] kind = "excluded" -> [st EXCEPT !.excluded_status_count = @ + 1]
      [] OTHER -> st

-----------------------------------------------------------------------------
(* csv.writer(f, quoting=csv.QUOTE_ALL) and csv.reader *)

\* Quotes written as they are
DoubleQuotesNot(c) == c

\* Every quote of a cell is doubled (doublequote=True)
RECURSIVE DoubleQuotes(_)
DoubleQuotes(c) ==
    IF c = << >> THEN << >>
    ELSE (IF Head(c) = "DQ" THEN <<"DQ", "DQ">> ELSE <<Head(c)>>)
             \o DoubleQuotes(Tail(c))

WriteCell(c) == <<"DQ">> \o DoubleQuotes(c) \o <<"DQ">>

RECURSIVE JoinCells(_)
JoinCells(r) ==
    IF r = << >> THEN << >>
    ELSE IF Len(r) = 1 THEN WriteCell(r[1])
    ELSE WriteCell(r[1]) \o <<",">> \o JoinCells(Tail(r))

\* writer.writerow(r): the quoted cells, commas between them, "\r\n" after
WriteRow(r) == JoinCells(r) \o <<"CR", "LF">>

\* Lines 142-143 and 261-262: writerow(header); writerows(records)
RECURSIVE WriteRows(_)
WriteRows(t) ==
    IF t = << >> THEN << >> ELSE WriteRow(Head(t)) \o WriteRows(Tail(t))

WriteCsv(h, recs) == WriteRows(<<h>> \o recs)

\* The reader's parser, one state per character (the excel dialect, not
\* strict).  EOL is the end of one line of the text.
ReaderStart ==
    [st |-> "START_RECORD", field |-> << >>, fields |-> << >>,
     recs |-> << >>, err |-> FALSE]

SaveField(s, st) ==
    [s EXCEPT !.fields = Append(@, s.field), !.field = << >>, !.st = st]
AddChar(s, c, st) == [s EXCEPT !.field = Append(@, c), !.st = st]
IsNewline(c) == c \in {"CR", "LF"}

ProcChar(s, c) ==
    CASE s.st \in {"START_RECORD", "START_FIELD"} ->
            IF s.st = "START_RECORD" /\ IsNewline(c)
            THEN [s EXCEPT !.st = "EAT_CRNL"]
            ELSE IF IsNewline(c) THEN SaveField(s, "EAT_CRNL")
            ELSE IF c = "DQ" THEN [s EXCEPT !.st = "IN_QUOTED_FIELD"]
            ELSE IF c = "," THEN SaveField(s, "START_FIELD")
            ELSE AddChar(s, c, "IN_FIELD")
      [] s.st = "IN_FIELD" ->
            IF IsNewline(c) THEN SaveField(s, "EAT_CRNL")
            ELSE IF c = "," THEN SaveField(s, "START_FIELD")
            ELSE AddChar(s, c, "IN_FIELD")
      [] s.st = "IN_QUOTED_FIELD" ->
            IF c = "DQ" THEN [s EXCEPT !.st = "QUOTE_IN_QUOTED_FIELD"]
            ELSE AddChar(s, c, "IN_QUOTED_FIELD")
      [] s.st = "QUOTE_IN_QUOTED_FIELD" ->
            IF c = "DQ" THEN AddChar(s, c, "IN_QUOTED_FIELD")
            ELSE IF c = "," THEN SaveField(s, "START_FIELD")
            ELSE IF IsNewline(c) THEN SaveField(s, "EAT_CRNL")
            ELSE AddChar(s, c, "IN_FIELD")
      [] s.st = "EAT_CRNL" ->
            IF IsNewline(c) THEN s ELSE [s EXCEPT !.err = TRUE]

\* The record is complete when a line ends outside a quoted field
YieldRecord(s) ==
    [s EXCEPT !.recs = Append(@, s.fields), !.fields = << >>,
              !.st = "START_RECORD"]

ProcEol(s) ==
    CASE s.st \in {"START_RECORD", "EAT_CRNL"} -> YieldRecord(s)
      [] s.st \in {"START_FIELD", "IN_FIELD", "QUOTE_IN_QUOTED_FIELD"} ->
            YieldRecord(SaveField(s, "START_RECORD"))
      [] s.st = "IN_QUOTED_FIELD" -> s

\* A line of the text ends after LF, after a CR that no LF follows, and at the
\* end of the text (a file opened with newline='')
LineEndsAt(text, i) ==
    \/ text[i] = "LF"
    \/ text[i] = "CR" /\ (i = Len(text) \/ text[i + 1] # "LF")
    \/ i = Len(text)

\* The input ends: a field cut short by the end of the text is kept
ReaderFinish(s) ==
    IF s.field # << >> \/ s.st = "IN_QUOTED_FIELD"
    THEN YieldRecord(SaveField(s, "START_RECORD"))
    ELSE s

RECURSIVE Scan(_, _, _)
Scan(s, text, i) ==
    IF s.err THEN s
    ELSE IF i > Len(text) THEN ReaderFinish(s)
    ELSE LET s1 == ProcChar(s, text[i])
         IN  Scan(IF ~s1.err /\ LineEndsAt(text, i) THEN ProcEol(s1) ELSE s1,
                  text, i + 1)

\* list(csv.reader(text))
ReadCsv(text) == Scan(ReaderStart, text, 1)

-----------------------------------------------------------------------------
(* The inputs of the pipelines *)

\* The most data rows an input holds
MaxRows == 2

\* Lines 61 and 174: lines[24:] and lines[16:]
Preamble(pl) == IF pl = "alipay" THEN 24 ELSE 16

Filler == <<"x">>
DateTimeCell ==
    <<"2", "0", "2", "4", "-", "0", "1", "-", "0", "5", " ",
      "1", "0", ":", "0", "0">>
BadDateCell == <<"0", "5", "/", "0", "1">>
Amount100 == <<"1", "0", "0", ".", "0", "0">>
AmountYen == <<"yen", "1", ",", "0", "0", "0", ".", "0", "0">>
BadAmount == <<"-">>
JiaoYiChengGong == <<"jiao", "yi4", "cheng", "gong">>
ZhiFuChengGong == <<"zhi", "fu", "cheng", "gong">>

\* Header rows: one naming no column, and each provider's own header
AlipayHeader ==
    <<JiaoYiShiJian, <<"fen", "lei">>, <<"dui", "fang">>, <<"zhang", "hao">>,
      <<"shuo", "ming">>, ShouZhi, JinE, <<"fang", "shi">>, JiaoYiZhuangTai>>
WeixinHeader ==
    <<JiaoYiShiJian, <<"lei", "xing">>, <<"dui", "fang">>, <<"shang", "pin">>,
      ShouZhi, JinE \o <<"(", "yuan", ")">>, <<"fang", "shi">>,
      DangQianZhuangTai>>
\* A header whose sixth cell is the time column and that names no amount column
TimeAtFive ==
    <<Filler, Filler, Filler, Filler, Filler, JiaoYiShiJian>>
Headers(pl) ==
    IF pl = "alipay" THEN {<<Filler, Filler>>, AlipayHeader}
    ELSE {<< >>, WeixinHeader, TimeAtFive}

\* The cells a row may hold at a column, by what the column is read as
RolePool(pl, role) ==
    CASE role = "time" -> {DateTimeCell, BadDateCell}
      [] role = "type" ->
            IF pl = "alipay" THEN {ZhiChu, ShouRu, BuJiShouZhi}
            ELSE {ZhiChu, ShouRu}
      [] role = "amount" ->
            IF pl = "alipay" THEN {Amount100, BadAmount}
            ELSE {AmountYen, BadAmount}
      [] role = "status" ->
            IF pl = "alipay" THEN {JiaoYiGuanBi, JiaoYiChengGong}
            ELSE {TiXianYiDaoZhang, DuiFangYiTuiHuan, ZhiFuChengGong}

Roles == <<"time", "type", "amount", "status">>
At(ix, role) ==
    CASE role = "time" -> ix.time
      [] role = "type" -> ix.type
      [] role = "amount" -> ix.amount
      [] role = "status" -> ix.status

\* A column that is read as several things holds a cell of any of them
CellChoices(pl, ix, p) ==
    UNION {RolePool(pl, Roles[k]) : k \in {j \in 1..4 : At(ix, Roles[j]) = p}}

AllCells(pl) == UNION {RolePool(pl, Roles[k]) : k \in 1..4}
KeyColumns(ix) == {ix.time, ix.type, ix.amount, ix.status}
FullLen(ix) == Max(KeyColumns(ix)) + 1

\* The rows of n cells: every assignment of cells to the columns that are read
RowsOfLen(pl, ix, n) ==
    {[i \in 1..n |-> IF (i - 1) \in KeyColumns(ix) THEN f[i - 1] ELSE Filler] :
        f \in {g \in [KeyColumns(ix) -> AllCells(pl)] :
                  \A p \in KeyColumns(ix) : g[p] \in CellChoices(pl, ix, p)}}

\* Rows that are one cell too short: one holding what would exclude a full
\* row, one holding nothing that would
ShortRows(pl, ix) ==
    {[i \in 1..(FullLen(ix) - 1) |->
        IF i - 1 = ix.time THEN DateTimeCell
        ELSE IF i - 1 = ix.type /\ pl = "alipay"
        THEN (IF x THEN BuJiShouZhi ELSE ShouRu)
        ELSE IF i - 1 = ix.status /\ x
        THEN (IF pl = "alipay" THEN JiaoYiGuanBi ELSE TiXianYiDaoZhang)
        ELSE Filler] : x \in BOOLEAN}

\* What the reader may yield for a data line: the empty row of a blank line,
\* a row that is too short, or a full row
RowSpace(pl, ix) ==
    {<< >>} \cup ShortRows(pl, ix) \cup RowsOfLen(pl, ix, FullLen(ix))

-----------------------------------------------------------------------------
(* process_alipay_csv and process_weixin_csv *)

Resolve(pl, h) == IF pl = "alipay" THEN ResolveAlipay(h) ELSE ResolveWeixin(h)
RowOutcome(pl, row, ix) ==
    IF pl = "alipay" THEN AlipayRow(row, ix) ELSE WeixinRow(row, ix)

\* Lines 130-134 and 250-253: the counters each pipeline reports
StatsOf(pl, st) ==
    IF pl = "alipay"
    THEN [filtered_count |-> st.filtered_count,
          non_expense_count |-> st.non_expense_count,
          closed_count |-> st.closed_count]
    ELSE [filtered_count |-> st.filtered_count,
          excluded_status_count |-> st.excluded_status_count]

\* Lines 127-135 and 247-254
MakeResult(pl, h, recs, st) ==
    [isNone |-> FALSE, header |-> h, records |-> recs,
     stats |-> StatsOf(pl, st)]

\* A boundary that catches only ValueError
PipelineCatchesValueError(exc) == exc = "ValueError"

\* Lines 152 and 270: except Exception
PipelineCatches(exc) == TRUE

\* An exception raised inside the try block: caught, reported and answered
\* with None (lines 153-154, 271-272), or leaving the function
Raise(exc) ==
    /\ pc' = "done"
    /\ IF PipelineCatches(exc)
       THEN /\ result' = NullResult
            /\ caught' = exc
            /\ propagated' = "none"
       ELSE /\ propagated' = exc
            /\ UNCHANGED <<result, caught>>

IdleDecoder == [detect |-> "None", decodes |-> {}]
IdleTable == [header |-> << >>, records |-> << >>]
IdleHeader == [pl |-> "none", header |-> << >>]
Pending == [kind |-> "pending"]

\* The variables of the parts that are not running
PipelineIdle ==
    /\ nlines = 0
    /\ header = << >>
    /\ idx = WeixinDefaults
    /\ rows = << >>
    /\ rowObjs = << >>
    /\ records = << >>
    /\ srcOf = << >>
    /\ stats = ZeroStats
    /\ result = NullResult
    /\ propagated = "none"
    /\ caught = "none"
    /\ env = [decoded |-> "no", output |-> "none"]
    /\ out = << >>
DecoderIdle == dIn = IdleDecoder /\ dOut = Pending
HeaderIdle == hIn = IdleHeader /\ hOut = [done |-> FALSE, ix |-> WeixinDefaults]
CsvIdle == cIn = IdleTable /\ cText = << >> /\ cBack = ReaderStart

Init ==
    /\ pipeline \in {"alipay", "weixin"}
    /\ pc = "load"
    /\ PipelineIdle
    /\ DecoderIdle
    /\ HeaderIdle
    /\ CsvIdle

\* Lines 55-61 and 168-174: the lines are given as a list, or read from the
\* path by read_file_with_encoding, which may raise
Load ==
    /\ pc = "load"
    /\ \/ /\ \E n \in 0..(Preamble(pipeline) + 1 + MaxRows) : nlines' = n
          /\ \E given \in {"list", "path"} :
                given = "path" =>
                    \E in \in DecoderInputs :
                        ReadFileWithEncoding(in).kind = "lines"
          /\ pc' = "header"
          /\ env' = [env EXCEPT !.decoded = "yes"]
          /\ UNCHANGED <<result, propagated, caught>>
       \/ /\ \E in \in DecoderInputs :
                /\ ReadFileWithEncoding(in).kind = "raise"
                /\ Raise(ReadFileWithEncoding(in).exc)
          /\ env' = [env EXCEPT !.decoded = "failed"]
          /\ UNCHANGED nlines
    /\ UNCHANGED <<pipeline, header, idx, rows, rowObjs, records, srcOf,
                   stats, out>>
    /\ UNCHANGED <<decVars, hdrVars, csvVars>>

\* Lines 65-76 and 178-200: next(reader) raises StopIteration when no line is
\* left after the preamble; else the header is read and the columns resolved
ReadHeader ==
    /\ pc = "header"
    /\ \/ /\ nlines <= Preamble(pipeline)
          /\ Raise("StopIteration")
          /\ UNCHANGED <<header, idx>>
       \/ /\ nlines > Preamble(pipeline)
          /\ \E h \in Headers(pipeline) :
                /\ header' = h
                /\ idx' = Resolve(pipeline, h)
          /\ pc' = "rows"
          /\ UNCHANGED <<result, propagated, caught>>
    /\ UNCHANGED <<pipeline, nlines, rows, rowObjs, records, srcOf, stats,
                   env, out>>
    /\ UNCHANGED <<decVars, hdrVars, csvVars>>

\* Lines 82-125 and 205-245: one pass of the loop over the reader's rows
ProcessRow ==
    /\ pc = "rows"
    /\ Len(rows) < nlines - Preamble(pipeline) - 1
    /\ \E row \in RowSpace(pipeline, idx) :
          LET o == RowOutcome(pipeline, row, idx)
          IN  /\ rows' = Append(rows, row)
              /\ rowObjs' = Append(rowObjs,
                     IF o.kind = "emit" THEN SourceAfter(row, o.rec) ELSE row)
              /\ IF o.kind = "IndexError"
                 THEN /\ Raise("IndexError")
                      /\ UNCHANGED <<records, srcOf, stats>>
                 ELSE /\ stats' = Count(stats, o.kind)
                      /\ records' = IF o.kind = "emit"
                                    THEN Append(records, o.rec) ELSE records
                      /\ srcOf' = IF o.kind = "emit"
                                  THEN Append(srcOf, Len(rows) + 1) ELSE srcOf
                      /\ UNCHANGED <<pc, result, propagated, caught>>
    /\ UNCHANGED <<pipeline, nlines, header, idx, env, out>>
    /\ UNCHANGED <<decVars, hdrVars, csvVars>>

\* Lines 127-150 and 247-268: the reader is exhausted; the result is built,
\* written when an output file is named (opening or writing may fail), and
\* returned
Finish ==
    /\ pc = "rows"
    /\ Len(rows) = nlines - Preamble(pipeline) - 1
    /\ \/ /\ \E o \in {"none", "written"} :
                /\ env' = [env EXCEPT !.output = o]
                /\ out' = IF o = "written" THEN WriteCsv(header, records)
                          ELSE << >>
          /\ result' = MakeResult(pipeline, header, records, stats)
          /\ pc' = "done"
          /\ UNCHANGED <<propagated, caught>>
       \/ /\ env' = [env EXCEPT !.output = "fails"]
          /\ Raise("OSError")
          /\ UNCHANGED out
    /\ UNCHANGED <<pipeline, nlines, header, idx, rows, rowObjs, records,
                   srcOf, stats>>
    /\ UNCHANGED <<decVars, hdrVars, csvVars>>

Next == Load \/ ReadHeader \/ ProcessRow \/ Finish

Spec == Init /\ [][Next]_vars

-----------------------------------------------------------------------------
(* read_file_with_encoding on its own: every detection outcome and every set
   of codecs that decode the input *)

DecodeInit ==
    /\ pipeline = "none"
    /\ pc = "decode"
    /\ PipelineIdle
    /\ dIn \in DecoderInputs
    /\ dOut = Pending
    /\ HeaderIdle
    /\ CsvIdle

\* Lines 18-40, one call
DecodeCall ==
    /\ pc = "decode"
    /\ dOut' = ReadFileWithEncoding(dIn)
    /\ pc' = "decoded"
    /\ UNCHANGED <<pipeline, nlines, header, idx, rows, rowObjs, records,
                   srcOf, stats, result, propagated, caught, env, out>>
    /\ UNCHANGED <<dIn, hdrVars, csvVars>>

SpecDecode == DecodeInit /\ [][DecodeCall]_vars

-----------------------------------------------------------------------------
(* Column resolution on its own: every header of a few cells *)

\* The most cells a header under resolution holds
MaxHeaderLen == 3

JinEYuan == JinE \o <<"(", "yuan", ")">>
HeaderCells ==
    {Filler, JiaoYiShiJian, ShouZhi, JinEYuan, DangQianZhuangTai,
     JiaoYiZhuangTai, ShouZhi \o JinE}
HeaderSpace == UNION {[1..n -> HeaderCells] : n \in 0..MaxHeaderLen}

HeaderInit ==
    /\ pipeline = "none"
    /\ pc = "resolve"
    /\ PipelineIdle
    /\ DecoderIdle
    /\ hIn \in [pl : {"alipay", "weixin"}, header : HeaderSpace]
    /\ hOut = [done |-> FALSE, ix |-> WeixinDefaults]
    /\ CsvIdle

\* Lines 68-76 and 181-200, one resolution
ResolveCall ==
    /\ pc = "resolve"
    /\ hOut' = [done |-> TRUE, ix |-> Resolve(hIn.pl, hIn.header)]
    /\ pc' = "resolved"
    /\ UNCHANGED <<pipeline, nlines, header, idx, rows, rowObjs, records,
                   srcOf, stats, result, propagated, caught, env, out>>
    /\ UNCHANGED <<decVars, hIn, csvVars>>

SpecHeader == HeaderInit /\ [][ResolveCall]_vars

-----------------------------------------------------------------------------
(* Writing a table and reading it back *)

\* The most records of a written table
MaxCsvRecords == 1

CommaQuoteCell == <<",", "DQ">>
LineFeedCell == <<"x", "LF">>
CarriageReturnCell == <<"CR", "x">>
CsvCells ==
    {<< >>, Filler, CommaQuoteCell, LineFeedCell, CarriageReturnCell}
CsvRowLens == {0, 1, 2}
CsvRows == UNION {[1..n -> CsvCells] : n \in CsvRowLens}
\* A record is never an empty row (lines 84 and 207)
CsvRecords == CsvRows \ {<< >>}
CsvTables ==
    [header : CsvRows,
     records : UNION {[1..n -> CsvRecords] : n \in 0..MaxCsvRecords}]

CsvInit ==
    /\ pipeline = "none"
    /\ pc = "csv_write"
    /\ PipelineIdle
    /\ DecoderIdle
    /\ HeaderIdle
    /\ cIn \in CsvTables
    /\ cText = << >>
    /\ cBack = ReaderStart

\* Lines 140-143 and 259-262
CsvWrite ==
    /\ pc = "csv_write"
    /\ cText' = WriteCsv(cIn.header, cIn.records)
    /\ pc' = "csv_read"
    /\ UNCHANGED <<pipeline, nlines, header, idx, rows, rowObjs, records,
                   srcOf, stats, result, propagated, caught, env, out>>
    /\ UNCHANGED <<decVars, hdrVars, cIn, cBack>>

\* The written text parsed again by csv.reader
CsvRead ==
    /\ pc = "csv_read"
    /\ cBack' = ReadCsv(cText)
    /\ pc' = "csv_done"
    /\ UNCHANGED <<pipeline, nlines, header, idx, rows, rowObjs, records,
                   srcOf, stats, result, propagated, caught, env, out>>
    /\ UNCHANGED <<decVars, hdrVars, cIn, cText>>

CsvNext == CsvWrite \/ CsvRead

SpecCsv == CsvInit /\ [][CsvNext]_vars

-----------------------------------------------------------------------------
(* The claims *)

\* The source row of the k-th record
Src(k) == rows[srcOf[k]]
Emitted == 1..Len(records)
Returned == pc = "done" /\ ~result.isNone

\* The exclusion values, as the claims give them
IsNonExpense(row) == Len(row) > 5 /\ row[6] = BuJiShouZhi
IsClosed(row) == Len(row) > idx.status /\ row[idx.status + 1] = JiaoYiGuanBi
IsExcludedStatus(row) ==
    /\ Len(row) > idx.status
    /\ row[idx.status + 1] \in
          {YiQuanETuiKuan, TiXianYiDaoZhang, DuiFangYiTuiHuan}
Excluding(row) ==
    IF pipeline = "alipay" THEN IsNonExpense(row) \/ IsClosed(row)
    ELSE IsExcludedStatus(row)

\* A row with a cell at every column read, whose date cell starts with a date
HasDate(row) ==
    /\ Len(row) > Max(KeyColumns(idx))
    /\ DateMatches(row[idx.time + 1])

RowIds == 1..Len(rows)
NumNonExpense == Cardinality({i \in RowIds : IsNonExpense(rows[i])})
NumClosed == Cardinality({i \in RowIds : IsClosed(rows[i])})
NumExcludedStatus == Cardinality({i \in RowIds : IsExcludedStatus(rows[i])})

NoExcludedEmitted == \A k \in Emitted : ~Excluding(Src(k))

\* C1 as stated: no row holding an exclusion value is among the returned
\* records, and each exclusion counter is the number of input rows holding
\* its exclusion value.
C1_Original ==
    Returned =>
        /\ result.records = records
        /\ NoExcludedEmitted
        /\ IF pipeline = "alipay"
           THEN /\ result.stats.non_expense_count = NumNonExpense
                /\ result.stats.closed_count = NumClosed
           ELSE result.stats.excluded_status_count = NumExcludedStatus

CountedNonExpense(row) == HasDate(row) /\ IsNonExpense(row)
CountedClosed(row) == HasDate(row) /\ ~IsNonExpense(row) /\ IsClosed(row)
CountedExcluded(row) == HasDate(row) /\ IsExcludedStatus(row)
NumCountedNonExpense ==
    Cardinality({i \in RowIds : CountedNonExpense(rows[i])})
NumCountedClosed == Cardinality({i \in RowIds : CountedClosed(rows[i])})
NumCountedExcluded == Cardinality({i \in RowIds : CountedExcluded(rows[i])})

\* C1 amended: no row holding an exclusion value is among the returned
\* records, and each exclusion counter is the number of input rows that have
\* a cell at every column read, start with a date, and hold the counter's
\* exclusion value (for closed_count: and do not hold the non-expense value).
C1_Amended ==
    /\ NoExcludedEmitted
    /\ Returned =>
        /\ result.records = records
        /\ IF pipeline = "alipay"
           THEN /\ result.stats.non_expense_count = NumCountedNonExpense
                /\ result.stats.closed_count = NumCountedClosed
           ELSE result.stats.excluded_status_count = NumCountedExcluded

C1_Witness ==
    /\ Returned
    /\ pipeline = "weixin"
    /\ result.stats.excluded_status_count = 1
    /\ \E i \in 1..Len(rows) : IsExcludedStatus(rows[i]) /\ ~HasDate(rows[i])

\* The amount text the source row is parsed from
SourceAmount(row) ==
    IF pipeline = "alipay" THEN row[idx.amount + 1]
    ELSE StripAmount(row[idx.amount + 1])

\* C2: the amount of every record is the negation of the amount parsed from
\* its source row when the row's indicator cell is the expense indicator, and
\* the parsed amount itself for every other indicator.
C2_SignedAmount ==
    \A k \in Emitted :
        LET parsed == Float(SourceAmount(Src(k)))
            emitted == Float(records[k][idx.amount + 1])
        IN  /\ parsed.ok
            /\ emitted.ok
            /\ emitted = IF Src(k)[idx.type + 1] = ZhiChu
                         THEN Negate(parsed) ELSE parsed

C2_Witness ==
    \E k \in Emitted :
        /\ Src(k)[idx.type + 1] = ZhiChu
        /\ records[k][idx.amount + 1] = <<"-", "1", "0", "0", "0", ".", "0">>
        /\ \E j \in Emitted :
              /\ Src(j)[idx.type + 1] = ShouRu
              /\ records[j][idx.amount + 1] = <<"1", "0", "0", "0", ".", "0">>

\* C3: the date cell of every record is the first ten characters of the date
\* cell of its source row, and these are a YYYY-MM-DD date.
C3_DatePrefix ==
    \A k \in Emitted :
        /\ DateMatches(Src(k)[idx.time + 1])
        /\ records[k][idx.time + 1] = SubSeq(Src(k)[idx.time + 1], 1, 10)
        /\ Len(records[k][idx.time + 1]) = 10

C3_Witness ==
    \E k \in Emitted :
        /\ Len(Src(k)[idx.time + 1]) > 10
        /\ records[k][idx.time + 1] =
              <<"2", "0", "2", "4", "-", "0", "1", "-", "0", "5">>

\* The header cells containing a text, as 0-based indices
Holding(sub, h) == {i \in 0..(Len(h) - 1) : Contains(sub, h[i + 1])}

\* What C4 says of one column
AsClaimed(sub, h, default, got) ==
    IF Holding(sub, h) = {} THEN got = default ELSE got \in Holding(sub, h)

\* C4 as stated: every column index is the index of a header cell containing
\* the column's text when there is one and the default when there is none;
\* in the WeChat pipeline it is the last such cell.
C4_Original ==
    hOut.done =>
        IF hIn.pl = "alipay"
        THEN AsClaimed(JiaoYiZhuangTai, hIn.header, 3, hOut.ix.status)
        ELSE /\ AsClaimed(JiaoYiShiJian, hIn.header, 0, hOut.ix.time)
             /\ AsClaimed(ShouZhi, hIn.header, 5, hOut.ix.type)
             /\ AsClaimed(JinE, hIn.header, 5, hOut.ix.amount)
             /\ AsClaimed(DangQianZhuangTai, hIn.header, 7, hOut.ix.status)
             /\ \A sub \in {JiaoYiShiJian, ShouZhi, JinE, DangQianZhuangTai} :
                   Holding(sub, hIn.header) # {} =>
                       LET got == CASE sub = JiaoYiShiJian -> hOut.ix.time
                                    [] sub = ShouZhi -> hOut.ix.type
                                    [] sub = JinE -> hOut.ix.amount
                                    [] OTHER -> hOut.ix.status
                       IN  got = Max(Holding(sub, hIn.header))

\* The header cells a WeChat column takes: those containing its text and
\* the text of no column tested before it (time, type, amount, status)
Taking(sub, earlier, h) ==
    {i \in Holding(sub, h) : \A e \in earlier : i \notin Holding(e, h)}

LastOr(S, default) == IF S = {} THEN default ELSE Max(S)
FirstOr(S, default) ==
    IF S = {} THEN default ELSE CHOOSE m \in S : \A x \in S : m <= x

\* C4 amended: the Alipay status index is the index of the first header cell
\* containing the status text, else 3; each WeChat index is the index of the
\* last header cell that contains the column's text and the text of no column
\* tested before it (time, type, amount, status in this order), else the
\* default 0, 5, 5, 7.
C4_Amended ==
    hOut.done =>
        IF hIn.pl = "alipay"
        THEN hOut.ix.status = FirstOr(Holding(JiaoYiZhuangTai, hIn.header), 3)
        ELSE LET h == hIn.header
             IN  /\ hOut.ix.time = LastOr(Taking(JiaoYiShiJian, {}, h), 0)
                 /\ hOut.ix.type =
                       LastOr(Taking(ShouZhi, {JiaoYiShiJian}, h), 5)
                 /\ hOut.ix.amount =
                       LastOr(Taking(JinE, {JiaoYiShiJian, ShouZhi}, h), 5)
                 /\ hOut.ix.status =
                       LastOr(Taking(DangQianZhuangTai,
                                     {JiaoYiShiJian, ShouZhi, JinE}, h), 7)

C4_Witness ==
    /\ hOut.done
    /\ hIn.pl = "weixin"
    /\ hIn.header = <<JinEYuan, ShouZhi \o JinE, JinEYuan>>
    /\ hOut.ix.amount = 2
    /\ hOut.ix.type = 1

\* The first candidate, in the order detected encoding then the fallback
\* list, that decodes the input; 0 for the detected one, 6 for none
DetectedDecodes ==
    /\ dIn.detect \in KnownGuesses \cup {"None"}
    /\ Codec(dIn.detect) \in dIn.decodes
FirstFallback ==
    FirstOr({i \in 1..Len(Fallbacks) : Fallbacks[i] \in dIn.decodes}, 6)

\* C5: the lines come from the first candidate that decodes the input, in
\* the order detected encoding, gbk, gb18030, cp936, utf-8-sig, utf-8; a
\* failing candidate leads to the next one; the call fails, with the
\* "convert manually" error, exactly when no candidate decodes the input.
C5_FirstThatDecodes ==
    pc = "decoded" =>
        IF DetectedDecodes
        THEN dOut = [kind |-> "lines", enc |-> Codec(dIn.detect)]
        ELSE IF FirstFallback <= Len(Fallbacks)
        THEN dOut = [kind |-> "lines", enc |-> Fallbacks[FirstFallback]]
        ELSE dOut = [kind |-> "raise", exc |-> "Exception: convert manually"]

\* C6: no exception leaves a pipeline; a call ends with a result or with
\* None, and with None when decoding failed, when no line follows the
\* preamble, and when writing the output failed.
C6_NeverPropagates ==
    /\ propagated = "none"
    /\ pc = "done" =>
        /\ result.isNone \/ result.records = records
        /\ env.decoded = "failed" => result.isNone
        /\ env.decoded = "yes" /\ nlines <= Preamble(pipeline) => result.isNone
        /\ env.output = "fails" => result.isNone

C6_Witness ==
    /\ pc = "done"
    /\ result.isNone
    /\ caught = "StopIteration"
    /\ pipeline = "alipay"
    /\ nlines = 24

\* C7: once the header is read, no row ends the run: no cell access is out of
\* range, every row of the input is processed, and unless the output cannot be
\* written the result is not None.
C7_RowsNeverFatal ==
    /\ caught # "IndexError"
    /\ (pc = "done" /\ env.decoded = "yes" /\ nlines > Preamble(pipeline)
            /\ env.output # "fails") =>
        /\ ~result.isNone
        /\ Len(rows) = nlines - Preamble(pipeline) - 1

C7_Witness ==
    /\ Returned
    /\ pipeline = "alipay"
    /\ Len(rows) = 2
    /\ Len(rows[1]) = 6
    /\ ~IsNonExpense(rows[1])
    /\ Len(records) = 1

\* C8: reading the written text back gives the header and the records that
\* were written, cell for cell.
C8_RoundTrip ==
    pc = "csv_done" =>
        /\ ~cBack.err
        /\ cBack.recs = <<cIn.header>> \o cIn.records

C8_Witness ==
    /\ pc = "csv_done"
    /\ cIn.header = <<CommaQuoteCell, << >>>>
    /\ cIn.records = <<<<LineFeedCell, CommaQuoteCell>>>>
    /\ cBack.recs = <<cIn.header>> \o cIn.records

\* C9: a record has as many cells as its source row and differs from it in
\* the date cell and the amount cell only; the source rows are as the reader
\* yielded them, and the returned header is the header read.
C9_Frame ==
    /\ \A k \in Emitted :
          /\ Len(records[k]) = Len(Src(k))
          /\ \A i \in 1..Len(Src(k)) :
                i \notin {idx.time + 1, idx.amount + 1} =>
                    records[k][i] = Src(k)[i]
    /\ rowObjs = rows
    /\ pc \in {"rows", "done"} /\ nlines > Preamble(pipeline) =>
          header \in Headers(pipeline)
    /\ Returned => result.header = header

C9_Witness ==
    /\ Returned
    /\ pipeline = "weixin"
    /\ result.header = WeixinHeader
    /\ \E k \in Emitted :
          /\ records[k] # Src(k)
          /\ records[k][2] = Filler
          /\ Src(k)[idx.type + 1] = ZhiChu
          /\ records[k][idx.type + 1] = ZhiChu

StatsSum ==
    stats.filtered_count + stats.non_expense_count + stats.closed_count
        + stats.excluded_status_count

\* C10: filtered_count is the number of records; the counters sum to at most
\* the number of rows processed; the records are in the order of their
\* source rows.
C10_Counting ==
    /\ stats.filtered_count = Len(records)
    /\ StatsSum <= Len(rows)
    /\ Len(srcOf) = Len(records)
    /\ \A k \in Emitted :
          /\ srcOf[k] \in 1..Len(rows)
          /\ RowOutcome(pipeline, Src(k), idx) = Outcome("emit", records[k])
          /\ \A j \in Emitted : j < k => srcOf[j] < srcOf[k]

C10_Witness ==
    /\ Len(rows) = 2
    /\ Len(records) = 1
    /\ srcOf = <<2>>
    /\ StatsSum = 2

=============================================================================
